---- MODULE Spec2Model ----
(***************************************************************************)
(* Wallet ownership verification and reward issuance of the Brother Nature *)
(* core (routes/auth.ts, routes/synthesis.ts, services/xrpl.service.ts).   *)
(*                                                                         *)
(* Every HTTP handler is an async function: it runs atomically between two *)
(* awaits and may be interleaved with other handlers at each await.  A     *)
(* handler is modelled by one action per await-delimited step; the request *)
(* slot req[r] holds the handler's local variables between the steps.      *)
(***************************************************************************)
EXTENDS Integers, Sequences, FiniteSets, TLC

\* ---------------------------------------------------------------- bounds
Users == {"u1", "u2"}
Addrs == {"rA", "rB"}
Keys == {"kA", "kB"}
MaxReqs == 2
\* minutes; expiresAt = Date.now() + 5 * 60 * 1000
TTL == 5
MaxChallenges == 2
MaxArtifacts == 2

\* crypto.randomBytes(32): nonce values are named in order of first appearance
Nonces == 1..MaxChallenges

\* Readings of the server clock (minutes): issuance at 0, expiry boundary at TTL.
Times == {0, TTL, TTL + 1}

Reqs == 1..MaxReqs
NoUser == "nobody"
NoAddr == "null"
NoKey == "nokey"
NoPost == "nopost"
\* an absent transaction hash, an unset DATETIME column
NoTx == 0
Null == -1

\* Thread root posts and their authors (Post.authorId).
Posts == {"p1", "p2"}
authorId(p) == IF p = "p1" THEN "u1" ELSE "u2"

\* The role in a caller's token.
Role(u) == IF u = "u2" THEN "STEWARD" ELSE "USER"

VARIABLES
    wallet,      \* User.xrplWalletAddress, per user
    challenges,  \* WalletChallenge rows, in creation order (id = index)
    now,         \* the server clock
    req,         \* per request slot: the running handler's local variables
    last,        \* the reply sent most recently, with the request it answers
    okCount,     \* per challenge: the number of 200 replies of /wallet/verify
    artifacts,   \* SynthesisArtifact rows, in creation order
    rewards,     \* TokenReward rows, in creation order (id = index)
    ledger       \* the external ledger: validated payments, in order (hash = index)

walletVars == <<wallet, challenges, now, okCount>>
rewardVars == <<artifacts, rewards, ledger>>
vars == <<wallet, challenges, now, req, last, okCount, artifacts, rewards, ledger>>

\* ------------------------------------------------------------- responses
Resp(status, error) == [status |-> status, error |-> error]
NoResp == Resp(0, "")
Ok == Resp(200, "")
Created == Resp(201, "")
NotFound == Resp(404, "Not Found")
Forbidden == Resp(403, "Forbidden")
Unauthorized == Resp(401, "Unauthorized")
Expired == Resp(400, "Expired")
AlreadyUsed == Resp(400, "Invalid")
AddressMismatch == Resp(400, "Mismatch")
InvalidSignature == Resp(400, "Invalid Signature")
Conflict == Resp(409, "Conflict")
InternalError == Resp(500, "Internal Server Error")

\* Errors thrown by the vault-backed XRPLService, and a normal return.
NotInitialized == Resp(0, "XRPLService not initialized")
InitializeFailed == Resp(0, "Failed to initialize XRPLService")
ConnectionFailed == Resp(0, "XRPL connection failed")
Returned == Resp(0, "returned")

\* ------------------------------------------------------------ signatures
\* The address an XRPL public key encodes to.
deriveAddress(pk) == IF pk = "kA" THEN "rA" ELSE IF pk = "kB" THEN "rB" ELSE NoAddr

generateChallengeMessage(nonce, xrplAddress, at) ==
    [address |-> xrplAddress, code |-> nonce, timestamp |-> at]

\* Buffer.from(message, 'utf8').toString('hex')
ToHex(message) == <<"hex", message>>

\* What the holder of keypair k produces when signing payload.
Sign(k, payload) == [signer |-> k, payload |-> payload]
BadSig == [signer |-> NoKey, payload |-> <<>>]

\* xrpl Wallet.verify(messageHex, signature, publicKey): an ideal signature
\* scheme; it throws on a malformed signature.
WalletVerify(messageHex, signature, publicKey) ==
    IF signature = BadSig THEN "throw"
    ELSE IF signature.signer = publicKey /\ signature.payload = messageHex THEN "valid"
    ELSE "invalid"

\* (variant: the message is handed to verify without the hex encoding)
verifyWalletSignatureNoHex(message, signature, publicKey) ==
    WalletVerify(message, signature, publicKey) = "valid"

\* XRPLService.verifyWalletSignature: hex-encode, verify, false on a throw.
verifyWalletSignature(message, signature, publicKey) ==
    WalletVerify(ToHex(message), signature, publicKey) = "valid"

\* ------------------------------------------------------------- the store
ChallengeIds == 1..Len(challenges)

\* walletChallenge.findUnique({ where: { nonce } }): the row's id, 0 if none
FindChallenge(n) ==
    IF \E c \in ChallengeIds : challenges[c].nonce = n
    THEN CHOOSE c \in ChallengeIds : challenges[c].nonce = n
    ELSE 0

\* user.findUnique({ where: { xrplWalletAddress } })
FindUserByWallet(a) ==
    IF \E u \in Users : wallet[u] = a
    THEN CHOOSE u \in Users : wallet[u] = a
    ELSE NoUser

\* (variant: the column carries no unique index)
WalletUniqueOff(u, a) == TRUE

\* unique index User_xrplWalletAddress_key: may user u's row take address a?
WalletUniqueOk(u, a) == \A v \in Users : v # u => wallet[v] # a

\* (variant: the nonce column carries no unique index)
NonceUniqueOff(n) == TRUE

\* unique index WalletChallenge_nonce_key
NonceUniqueOk(n) == \A c \in ChallengeIds : challenges[c].nonce # n

\* The token configuration of a vault-backed instance before initialize().
EmptyConfig ==
    [EXP |-> [currency |-> "", issuerAddress |-> ""],
     RGN |-> [currency |-> "", issuerAddress |-> ""],
     GRD |-> [currency |-> "", issuerAddress |-> ""]]

\* ------------------------------------------------------------- requests
IdleReq == [kind |-> "none", pc |-> "idle", user |-> NoUser, nonce |-> 0,
            addr |-> NoAddr, sig |-> BadSig, pk |-> NoKey, ch |-> 0,
            post |-> NoPost, artifact |-> 0, reward |-> 0, seq |-> 0, tx |-> NoTx,
            error |-> "", isInitialized |-> FALSE, isConnected |-> FALSE,
            tokenConfig |-> EmptyConfig]

\* Request slots are interchangeable: a new request takes the lowest free one.
Free(r) == req[r].pc = "idle" /\ \A q \in Reqs : q < r => req[q].pc # "idle"

\* The balances of a reply that reports none.
NoBalances == [EXPLORER |-> Null, REGEN |-> Null, GUARDIAN |-> Null]

Reply(kind, u, a, pk, c, res) ==
    [kind |-> kind, user |-> u, addr |-> a, pk |-> pk, ch |-> c, result |-> res,
     artifact |-> 0, tx |-> NoTx, balances |-> NoBalances]

Init ==
    /\ wallet = [u \in Users |-> NoAddr]
    /\ challenges = <<>>
    /\ now = 0
    /\ req = [r \in Reqs |-> IdleReq]
    /\ last = Reply("none", NoUser, NoAddr, NoKey, 0, NoResp)
    /\ okCount = <<>>
    /\ artifacts = <<>>
    /\ rewards = <<>>
    /\ ledger = <<>>

\* Time passes.
Tick ==
    /\ \E t \in Times : t > now /\ now' = t
    /\ UNCHANGED <<wallet, challenges, req, last, okCount, rewardVars>>

\* (variant: no pre-check on the claimed address)
IssueFindNoCheck(r, u, a) ==
    /\ Free(r)
    /\ Len(challenges) + Cardinality({q \in Reqs : req[q].kind = "challenge"}) < MaxChallenges
    /\ req' = [req EXCEPT ![r] = [IdleReq EXCEPT !.kind = "challenge",
                    !.pc = "create", !.user = u, !.addr = a]]
    /\ last' = last
    /\ UNCHANGED <<wallet, challenges, now, okCount, rewardVars>>

\* POST /wallet/challenge, up to the first await's continuation: the
\* pre-check on the claimed address.
IssueFind(r, u, a) ==
    /\ Free(r)
    /\ Len(challenges) + Cardinality({q \in Reqs : req[q].kind = "challenge"}) < MaxChallenges
    /\ LET existingWallet == FindUserByWallet(a)
       IN  IF existingWallet # NoUser /\ existingWallet # u
           THEN /\ last' = Reply("challenge", u, a, NoKey, 0, Conflict)
                /\ req' = req
           ELSE /\ req' = [req EXCEPT ![r] = [IdleReq EXCEPT !.kind = "challenge",
                                !.pc = "create", !.user = u, !.addr = a]]
                /\ last' = last
    /\ UNCHANGED <<wallet, challenges, now, okCount, rewardVars>>

\* (variant: the expiry is the issuance time itself)
NewChallengeNoTTL(n, u, a) ==
    [nonce |-> n, message |-> generateChallengeMessage(n, a, now),
     xrplAddress |-> a, userId |-> u, isUsed |-> FALSE, isVerified |-> FALSE,
     expiresAt |-> now, verifiedAt |-> Null]

NewChallenge(n, u, a) ==
    [nonce |-> n, message |-> generateChallengeMessage(n, a, now),
     xrplAddress |-> a, userId |-> u, isUsed |-> FALSE, isVerified |-> FALSE,
     expiresAt |-> now + TTL, verifiedAt |-> Null]

\* POST /wallet/challenge: nonce, expiry, message, walletChallenge.create.
IssueCreate(r, n) ==
    /\ req[r].kind = "challenge" /\ req[r].pc = "create"
    /\ IF NonceUniqueOk(n)
       THEN /\ challenges' = Append(challenges, NewChallenge(n, req[r].user, req[r].addr))
            /\ okCount' = Append(okCount, 0)
            /\ last' = Reply("challenge", req[r].user, req[r].addr, NoKey,
                              Len(challenges) + 1, Ok)
       ELSE /\ UNCHANGED <<challenges, okCount>>
            /\ last' = Reply("challenge", req[r].user, req[r].addr, NoKey, 0, InternalError)
    /\ req' = [req EXCEPT ![r] = IdleReq]
    /\ UNCHANGED <<wallet, now, rewardVars>>

\* The signatures a client can submit: any keypair over the hex of any issued
\* message, or a malformed one.
Sigs == {Sign(k, ToHex(challenges[c].message)) : k \in Keys, c \in ChallengeIds}
            \cup {BadSig}

Pass == Resp(0, "pass")

\* (variant: the signature check placed before the address check)
VerifyChecksSignatureFirst(c, u, a, s, pk) ==
    IF c = 0 THEN NotFound
    ELSE IF challenges[c].userId # u THEN Forbidden
    ELSE IF now > challenges[c].expiresAt THEN Expired
    ELSE IF challenges[c].isUsed THEN AlreadyUsed
    ELSE IF ~verifyWalletSignature(challenges[c].message, s, pk) THEN InvalidSignature
    ELSE IF challenges[c].xrplAddress # a THEN AddressMismatch
    ELSE Pass

\* (variant: the owner check placed after the expiry and isUsed checks)
VerifyChecksOwnerLate(c, u, a, s, pk) ==
    IF c = 0 THEN NotFound
    ELSE IF now > challenges[c].expiresAt THEN Expired
    ELSE IF challenges[c].isUsed THEN AlreadyUsed
    ELSE IF challenges[c].userId # u THEN Forbidden
    ELSE IF challenges[c].xrplAddress # a THEN AddressMismatch
    ELSE IF ~verifyWalletSignature(challenges[c].message, s, pk) THEN InvalidSignature
    ELSE Pass

\* (variant: the expiry check written with >=)
VerifyChecksExpiryGe(c, u, a, s, pk) ==
    IF c = 0 THEN NotFound
    ELSE IF challenges[c].userId # u THEN Forbidden
    ELSE IF now >= challenges[c].expiresAt THEN Expired
    ELSE IF challenges[c].isUsed THEN AlreadyUsed
    ELSE IF challenges[c].xrplAddress # a THEN AddressMismatch
    ELSE IF ~verifyWalletSignature(challenges[c].message, s, pk) THEN InvalidSignature
    ELSE Pass

\* POST /wallet/verify: the checks between findUnique and the first update,
\* in the handler's order, on the row c as read (0: no row).
VerifyChecks(c, u, a, s, pk) ==
    IF c = 0 THEN NotFound
    ELSE IF challenges[c].userId # u THEN Forbidden
    ELSE IF now > challenges[c].expiresAt THEN Expired
    ELSE IF challenges[c].isUsed THEN AlreadyUsed
    ELSE IF challenges[c].xrplAddress # a THEN AddressMismatch
    ELSE IF ~verifyWalletSignature(challenges[c].message, s, pk) THEN InvalidSignature
    ELSE Pass

\* (variant: a rejected signature marks the challenge used)
VerifyRequestBurnsOnBadSignature(r, u, n, a, s, pk) ==
    /\ Free(r)
    /\ LET c == FindChallenge(n)
           res == VerifyChecks(c, u, a, s, pk)
       IN  IF res = Pass
           THEN /\ req' = [req EXCEPT ![r] = [IdleReq EXCEPT !.kind = "verify",
                                !.pc = "updateChallenge", !.user = u, !.nonce = n,
                                !.addr = a, !.sig = s, !.pk = pk, !.ch = c]]
                /\ last' = last
                /\ challenges' = challenges
           ELSE /\ last' = Reply("verify", u, NoAddr, NoKey, c, res)
                /\ req' = req
                /\ challenges' = IF res = InvalidSignature
                                  THEN [challenges EXCEPT ![c].isUsed = TRUE]
                                  ELSE challenges
    /\ UNCHANGED <<wallet, now, okCount, rewardVars>>

\* POST /wallet/verify: findUnique by nonce and the checks; an early return
\* replies at once, otherwise the handler goes on to its two updates.  Of a
\* refused request the reply keeps the caller and the row only.
VerifyRequest(r, u, n, a, s, pk) ==
    /\ Free(r)
    /\ LET c == FindChallenge(n)
           res == VerifyChecks(c, u, a, s, pk)
       IN  IF res = Pass
           THEN /\ req' = [req EXCEPT ![r] = [IdleReq EXCEPT !.kind = "verify",
                                !.pc = "updateChallenge", !.user = u, !.nonce = n,
                                !.addr = a, !.sig = s, !.pk = pk, !.ch = c]]
                /\ last' = last
           ELSE /\ last' = Reply("verify", u, NoAddr, NoKey, c, res)
                /\ req' = req
    /\ UNCHANGED <<wallet, challenges, now, okCount, rewardVars>>

\* (variant: the update omits isUsed)
MarkVerifiedOnly(c) ==
    [challenges EXCEPT ![c].isVerified = TRUE, ![c].verifiedAt = now]

\* walletChallenge.update({ where: { id }, data: { isUsed, isVerified, verifiedAt } })
MarkUsed(c) ==
    [challenges EXCEPT ![c].isUsed = TRUE, ![c].isVerified = TRUE, ![c].verifiedAt = now]

VerifyUpdateChallenge(r) ==
    /\ req[r].kind = "verify" /\ req[r].pc = "updateChallenge"
    /\ challenges' = MarkUsed(req[r].ch)
    /\ req' = [req EXCEPT ![r].pc = "updateUser"]
    /\ UNCHANGED <<wallet, now, last, okCount, rewardVars>>

\* user.update({ where: { id }, data: { xrplWalletAddress } }) and the reply;
\* a unique-index violation throws into the handler's catch block (500).
VerifyUpdateUser(r) ==
    /\ req[r].kind = "verify" /\ req[r].pc = "updateUser"
    /\ IF WalletUniqueOk(req[r].user, req[r].addr)
       THEN /\ wallet' = [wallet EXCEPT ![req[r].user] = req[r].addr]
            /\ okCount' = [okCount EXCEPT ![req[r].ch] = @ + 1]
            /\ last' = Reply("verify", req[r].user, req[r].addr, req[r].pk, req[r].ch, Ok)
       ELSE /\ UNCHANGED <<wallet, okCount>>
            /\ last' = Reply("verify", req[r].user, req[r].addr, req[r].pk, req[r].ch,
                              InternalError)
    /\ req' = [req EXCEPT ![r] = IdleReq]
    /\ UNCHANGED <<challenges, now, rewardVars>>

\* (variant: unlinking also resets the user's verified challenges)
UnlinkResetsChallenges(u) ==
    /\ wallet' = [wallet EXCEPT ![u] = NoAddr]
    /\ challenges' = [c \in ChallengeIds |->
                        IF challenges[c].userId = u
                        THEN [challenges[c] EXCEPT !.isVerified = FALSE]
                        ELSE challenges[c]]
    /\ last' = Reply("unlink", u, NoAddr, NoKey, 0, Ok)
    /\ UNCHANGED <<now, req, okCount, rewardVars>>

\* DELETE /wallet/unlink: one user.update and the reply.
Unlink(u) ==
    /\ wallet' = [wallet EXCEPT ![u] = NoAddr]
    /\ last' = Reply("unlink", u, NoAddr, NoKey, 0, Ok)
    /\ UNCHANGED <<challenges, now, req, okCount, rewardVars>>

\* ------------------------------------------------------- reward issuance
\* The values EXPLORER_TOKEN_CURRENCY can have in the process environment
\* when a service instance is constructed: unset, or an operator's choice.
ExplorerCurrencies == {"EXP", "EXQ"}

\* XRPLService.tokenConfig as read from the environment by the constructor.
tokenConfig(explorerCurrency) ==
    [EXP |-> [currency |-> explorerCurrency, issuerAddress |-> "rIssuer"],
     RGN |-> [currency |-> "RGN", issuerAddress |-> "rIssuer"],
     GRD |-> [currency |-> "GRD", issuerAddress |-> "rIssuer"]]

getTokenConfig(config, tokenType) ==
    IF tokenType = "EXPLORER" THEN config.EXP
    ELSE IF tokenType = "REGEN" THEN config.RGN
    ELSE config.GRD

RewardIds == 1..Len(rewards)

TriggerReply(caller, artifact, tx) ==
    [Reply("trigger", caller, NoAddr, NoKey, 0, Created) EXCEPT
        !.artifact = artifact, !.tx = tx]

\* The reply of POST /trigger once the reward block is over: 201 with the
\* artifact, and the payment's hash if the reward block returned one.
TriggerDone(r, tx) ==
    /\ last' = TriggerReply(req[r].user, req[r].artifact, tx)
    /\ req' = [req EXCEPT ![r] = IdleReq]

\* (variant: the route is guarded by authenticate only)
requireStewardTokenOnly(caller) ==
    IF caller = NoUser THEN Unauthorized ELSE Pass

\* The preHandler requireSteward: the reply it sends, or Pass.  caller is the
\* user of the request's token, NoUser when the token is missing or invalid.
requireSteward(caller) ==
    IF caller = NoUser THEN Unauthorized
    ELSE IF Role(caller) # "STEWARD" /\ Role(caller) # "ADMIN" THEN Forbidden
    ELSE Pass

\* POST /trigger: requireSteward, the thread root lookup and
\* synthesisArtifact.create.  The route handler is not run once the
\* preHandler has sent a reply.
TriggerRequest(r, caller, p) ==
    /\ Free(r)
    /\ Len(artifacts) < MaxArtifacts
    /\ IF requireSteward(caller) # Pass
       THEN /\ last' = Reply("trigger", caller, NoAddr, NoKey, 0, requireSteward(caller))
            /\ UNCHANGED <<req, artifacts>>
       ELSE IF p \notin Posts
       THEN /\ last' = Reply("trigger", caller, NoAddr, NoKey, 0, NotFound)
            /\ UNCHANGED <<req, artifacts>>
       ELSE /\ artifacts' = Append(artifacts, [threadRootId |-> p, createdById |-> caller])
            /\ req' = [req EXCEPT ![r] = [IdleReq EXCEPT !.kind = "trigger",
                            !.pc = "rewardUser", !.user = caller, !.post = p,
                            !.artifact = Len(artifacts) + 1]]
            /\ last' = last
    /\ UNCHANGED <<walletVars, rewards, ledger>>

\* (variant: the wallet check is missing)
RewardLookupUserNoCheck(r) ==
    /\ req[r].kind = "trigger" /\ req[r].pc = "rewardUser"
    /\ req' = [req EXCEPT ![r].pc = "rewardCreate",
                           ![r].addr = wallet[authorId(req[r].post)]]
    /\ last' = last
    /\ UNCHANGED <<walletVars, rewardVars>>

\* rewardVerifiedContribution: user.findUnique and the wallet check; the
\* throw is caught by the trigger handler's reward block.
RewardLookupUser(r) ==
    /\ req[r].kind = "trigger" /\ req[r].pc = "rewardUser"
    /\ LET xrplWalletAddress == wallet[authorId(req[r].post)]
       IN  IF xrplWalletAddress = NoAddr
           THEN TriggerDone(r, NoTx)
           ELSE /\ req' = [req EXCEPT ![r].pc = "rewardCreate",
                                       ![r].addr = xrplWalletAddress]
                /\ last' = last
    /\ UNCHANGED <<walletVars, rewardVars>>

NewReward(tokenInfo, userId, postId, recipientAddress, amount, tokenType) ==
    [userId |-> userId, tokenType |-> tokenType, amount |-> amount,
     xrplTxHash |-> NoTx, xrplDestination |-> recipientAddress,
     xrplIssuer |-> tokenInfo.issuerAddress,
     xrplCurrency |-> tokenInfo.currency,
     reason |-> <<"Verified contribution in post", postId>>,
     postId |-> postId, status |-> "PROCESSING", errorMessage |-> "",
     processedAt |-> Null, confirmedAt |-> Null]

\* sendTokenReward: connect, getTokenConfig on the configuration this
\* request's service instance was constructed with, then tokenReward.create;
\* connect and create may throw.
RewardCreate(r, outcome) ==
    /\ req[r].kind = "trigger" /\ req[r].pc = "rewardCreate"
    /\ IF outcome = "created"
       THEN /\ \E explorerCurrency \in ExplorerCurrencies :
                 LET tokenInfo == getTokenConfig(tokenConfig(explorerCurrency), "EXPLORER")
                 IN  rewards' = Append(rewards,
                         NewReward(tokenInfo, authorId(req[r].post), req[r].post,
                                   req[r].addr, "10", "EXPLORER"))
            /\ req' = [req EXCEPT ![r].pc = "autofill", ![r].reward = Len(rewards) + 1]
            /\ last' = last
       ELSE /\ rewards' = rewards
            /\ TriggerDone(r, NoTx)
    /\ UNCHANGED <<walletVars, artifacts, ledger>>

\* The issuer account's Sequence on the ledger: the number its next
\* transaction must carry.  Every validated transaction consumes one.
AccountSequence == Len(ledger) + 1

\* client.autofill(payment): reads the account's current Sequence (and the
\* fee and LastLedgerSequence) from the server; a network error throws.
RewardAutofill(r, outcome) ==
    /\ req[r].kind = "trigger" /\ req[r].pc = "autofill"
    /\ IF outcome = "filled"
       THEN req' = [req EXCEPT ![r].pc = "submit", ![r].seq = AccountSequence]
       ELSE req' = [req EXCEPT ![r].pc = "fail", ![r].error = "network"]
    /\ UNCHANGED <<walletVars, rewardVars, last>>

Payment(r) ==
    [Account |-> "rIssuer", Destination |-> req[r].addr,
     currency |-> rewards[req[r].reward].xrplCurrency,
     value |-> rewards[req[r].reward].amount,
     issuer |-> rewards[req[r].reward].xrplIssuer,
     Sequence |-> req[r].seq,
     origin |-> req[r].reward]

\* A transaction in a validated ledger, with its TransactionResult.
Validated(tx, result) == [tx |-> tx, result |-> result]

\* (variant: any validated result counts as success)
RewardSubmitIgnoresResult(r, outcome) ==
    /\ req[r].kind = "trigger" /\ req[r].pc = "submit"
    /\ IF req[r].seq # AccountSequence
       THEN /\ ledger' = ledger
            /\ req' = [req EXCEPT ![r].pc = "fail", ![r].error = "tefPAST_SEQ"]
       ELSE IF outcome = "tesSUCCESS"
       THEN /\ ledger' = Append(ledger, Validated(Payment(r), "tesSUCCESS"))
            /\ req' = [req EXCEPT ![r].pc = "confirm", ![r].tx = Len(ledger) + 1]
       ELSE IF outcome = "lost"
       THEN /\ ledger' = Append(ledger, Validated(Payment(r), "tesSUCCESS"))
            /\ req' = [req EXCEPT ![r].pc = "fail", ![r].error = "timeout"]
       ELSE IF outcome = "rejected"
       THEN /\ ledger' = Append(ledger, Validated(Payment(r), "tecPATH_DRY"))
            /\ req' = [req EXCEPT ![r].pc = "confirm", ![r].tx = Len(ledger) + 1]
       ELSE /\ ledger' = ledger
            /\ req' = [req EXCEPT ![r].pc = "fail", ![r].error = "network"]
    /\ UNCHANGED <<walletVars, artifacts, rewards, last>>

\* sign, submitAndWait and the result check.  A payment whose Sequence the
\* account has already passed is never validated and the call throws.
\* Otherwise the ledger validates the payment with tesSUCCESS, validates it
\* with a failure code, or the call throws: before the payment is applied,
\* or while waiting for a payment that the ledger validates all the same.
RewardSubmit(r, outcome) ==
    /\ req[r].kind = "trigger" /\ req[r].pc = "submit"
    /\ IF req[r].seq # AccountSequence
       THEN /\ ledger' = ledger
            /\ req' = [req EXCEPT ![r].pc = "fail", ![r].error = "tefPAST_SEQ"]
       ELSE IF outcome = "tesSUCCESS"
       THEN /\ ledger' = Append(ledger, Validated(Payment(r), "tesSUCCESS"))
            /\ req' = [req EXCEPT ![r].pc = "confirm", ![r].tx = Len(ledger) + 1]
       ELSE IF outcome = "lost"
       THEN /\ ledger' = Append(ledger, Validated(Payment(r), "tesSUCCESS"))
            /\ req' = [req EXCEPT ![r].pc = "fail", ![r].error = "timeout"]
       ELSE IF outcome = "rejected"
       THEN /\ ledger' = Append(ledger, Validated(Payment(r), "tecPATH_DRY"))
            /\ req' = [req EXCEPT ![r].pc = "fail",
                                   ![r].error = "Transaction not successful"]
       ELSE /\ ledger' = ledger
            /\ req' = [req EXCEPT ![r].pc = "fail", ![r].error = "network"]
    /\ UNCHANGED <<walletVars, artifacts, rewards, last>>

\* (variant: the CONFIRMED update rewrites the destination from the user row)
RewardConfirmRefreshDestination(r, stored) ==
    /\ req[r].kind = "trigger" /\ req[r].pc = "confirm"
    /\ IF stored
       THEN /\ rewards' = [rewards EXCEPT ![req[r].reward].xrplTxHash = req[r].tx,
                                ![req[r].reward].status = "CONFIRMED",
                                ![req[r].reward].processedAt = now,
                                ![req[r].reward].confirmedAt = now,
                                ![req[r].reward].xrplDestination =
                                    wallet[rewards[req[r].reward].userId]]
            /\ TriggerDone(r, req[r].tx)
       ELSE /\ rewards' = rewards
            /\ req' = [req EXCEPT ![r].pc = "fail", ![r].error = "update failed"]
            /\ last' = last
    /\ UNCHANGED <<walletVars, artifacts, ledger>>

\* (variant: the CONFIRMED update omits the transaction hash)
RewardConfirmNoHash(r, stored) ==
    /\ req[r].kind = "trigger" /\ req[r].pc = "confirm"
    /\ IF stored
       THEN /\ rewards' = [rewards EXCEPT ![req[r].reward].status = "CONFIRMED",
                                ![req[r].reward].processedAt = now,
                                ![req[r].reward].confirmedAt = now]
            /\ TriggerDone(r, req[r].tx)
       ELSE /\ rewards' = rewards
            /\ req' = [req EXCEPT ![r].pc = "fail", ![r].error = "update failed"]
            /\ last' = last
    /\ UNCHANGED <<walletVars, artifacts, ledger>>

\* (variant: a statement after the CONFIRMED update throws inside the try)
RewardConfirmThenThrow(r, stored) ==
    /\ req[r].kind = "trigger" /\ req[r].pc = "confirm"
    /\ rewards' = IF stored
                  THEN [rewards EXCEPT ![req[r].reward].xrplTxHash = req[r].tx,
                            ![req[r].reward].status = "CONFIRMED",
                            ![req[r].reward].processedAt = now,
                            ![req[r].reward].confirmedAt = now]
                  ELSE rewards
    /\ req' = [req EXCEPT ![r].pc = "fail", ![r].error = "update failed"]
    /\ last' = last
    /\ UNCHANGED <<walletVars, artifacts, ledger>>

\* tokenReward.update to CONFIRMED and the return of the hash; an update
\* that throws lands in sendTokenReward's catch block.
RewardConfirm(r, stored) ==
    /\ req[r].kind = "trigger" /\ req[r].pc = "confirm"
    /\ IF stored
       THEN /\ rewards' = [rewards EXCEPT ![req[r].reward].xrplTxHash = req[r].tx,
                                ![req[r].reward].status = "CONFIRMED",
                                ![req[r].reward].processedAt = now,
                                ![req[r].reward].confirmedAt = now]
            /\ TriggerDone(r, req[r].tx)
       ELSE /\ rewards' = rewards
            /\ req' = [req EXCEPT ![r].pc = "fail", ![r].error = "update failed"]
            /\ last' = last
    /\ UNCHANGED <<walletVars, artifacts, ledger>>

\* (variant: the catch block records the status without the message)
RewardFailNoMessage(r, stored) ==
    /\ req[r].kind = "trigger" /\ req[r].pc = "fail"
    /\ rewards' = IF stored
                  THEN [rewards EXCEPT ![req[r].reward].status = "FAILED",
                            ![req[r].reward].processedAt = now]
                  ELSE rewards
    /\ last' = [Reply("trigger", req[r].user, NoAddr, NoKey, 0, Created) EXCEPT
                    !.artifact = req[r].artifact]
    /\ req' = [req EXCEPT ![r] = IdleReq]
    /\ UNCHANGED <<walletVars, artifacts, ledger>>

\* (variant: the catch block only rethrows)
RewardFailRethrowOnly(r, stored) ==
    /\ req[r].kind = "trigger" /\ req[r].pc = "fail"
    /\ rewards' = rewards
    /\ last' = [Reply("trigger", req[r].user, NoAddr, NoKey, 0, Created) EXCEPT
                    !.artifact = req[r].artifact]
    /\ req' = [req EXCEPT ![r] = IdleReq]
    /\ UNCHANGED <<walletVars, artifacts, ledger>>

\* (variant: the rethrow escapes to the trigger handler's outer catch)
RewardFailUncaught(r, stored) ==
    /\ req[r].kind = "trigger" /\ req[r].pc = "fail"
    /\ rewards' = IF stored
                  THEN [rewards EXCEPT ![req[r].reward].status = "FAILED",
                            ![req[r].reward].errorMessage = req[r].error,
                            ![req[r].reward].processedAt = now]
                  ELSE rewards
    /\ last' = Reply("trigger", req[r].user, NoAddr, NoKey, 0, InternalError)
    /\ req' = [req EXCEPT ![r] = IdleReq]
    /\ UNCHANGED <<walletVars, artifacts, ledger>>

\* sendTokenReward's catch block: tokenReward.update to FAILED, then the
\* rethrow, which the trigger handler's reward block catches.
RewardFail(r, stored) ==
    /\ req[r].kind = "trigger" /\ req[r].pc = "fail"
    /\ rewards' = IF stored
                  THEN [rewards EXCEPT ![req[r].reward].status = "FAILED",
                            ![req[r].reward].errorMessage = req[r].error,
                            ![req[r].reward].processedAt = now]
                  ELSE rewards
    /\ TriggerDone(r, NoTx)
    /\ UNCHANGED <<walletVars, artifacts, ledger>>

\* The handlers' steps of request slot r, over all inputs.  A generated
\* nonce is a fresh value or, with negligible probability, one issued before.
Handlers(r) ==
    \/ \E u \in Users, a \in Addrs : IssueFind(r, u, a)
    \/ \E n \in 1..(Len(challenges) + 1) : IssueCreate(r, n)
    \/ \E u \in Users, n \in Nonces, a \in Addrs, s \in Sigs, pk \in Keys :
          VerifyRequest(r, u, n, a, s, pk)
    \/ VerifyUpdateChallenge(r)
    \/ VerifyUpdateUser(r)

Next ==
    \/ Tick
    \/ \E r \in Reqs : Handlers(r)
    \/ \E u \in Users : Unlink(u)

Spec == Init /\ [][Next]_vars

\* Concurrent handlers at one reading of the clock.
NextConcurrent ==
    \/ \E r \in Reqs : Handlers(r)
    \/ \E u \in Users : Unlink(u)

SpecConcurrent == Init /\ [][NextConcurrent]_vars

\* One handler at a time while the clock advances.
NextTimed ==
    \/ Tick
    \/ Handlers(1)
    \/ \E u \in Users : Unlink(u)

SpecTimed == Init /\ [][NextTimed]_vars

\* Concurrent verify handlers on a single challenge while the clock advances.
NextRace ==
    \/ Tick
    \/ \E u \in Users, a \in Addrs : Len(challenges) = 0 /\ IssueFind(1, u, a)
    \/ \E n \in 1..(Len(challenges) + 1) : IssueCreate(1, n)
    \/ \E r \in Reqs, u \in Users, n \in Nonces, a \in Addrs, s \in Sigs, pk \in Keys :
          VerifyRequest(r, u, n, a, s, pk)
    \/ \E r \in Reqs : VerifyUpdateChallenge(r)
    \/ \E r \in Reqs : VerifyUpdateUser(r)

SpecRace == Init /\ [][NextRace]_vars

\* ------------------------------------------------------ direct linking
\* POST /wallet/link: the format check, the pre-check on the address.
LinkFind(r, u, a) ==
    /\ Free(r)
    /\ LET existingWallet == FindUserByWallet(a)
       IN  IF existingWallet # NoUser /\ existingWallet # u
           THEN /\ last' = Reply("link", u, a, NoKey, 0, Conflict)
                /\ req' = req
           ELSE /\ req' = [req EXCEPT ![r] = [IdleReq EXCEPT !.kind = "link",
                                !.pc = "update", !.user = u, !.addr = a]]
                /\ last' = last
    /\ UNCHANGED <<walletVars, rewardVars>>

\* POST /wallet/link: user.update and the reply; a unique-index violation
\* throws into the catch block (500).
LinkUpdate(r) ==
    /\ req[r].kind = "link" /\ req[r].pc = "update"
    /\ IF WalletUniqueOk(req[r].user, req[r].addr)
       THEN /\ wallet' = [wallet EXCEPT ![req[r].user] = req[r].addr]
            /\ last' = Reply("link", req[r].user, req[r].addr, NoKey, 0, Ok)
       ELSE /\ wallet' = wallet
            /\ last' = Reply("link", req[r].user, req[r].addr, NoKey, 0, InternalError)
    /\ req' = [req EXCEPT ![r] = IdleReq]
    /\ UNCHANGED <<challenges, now, okCount, rewardVars>>

LinkHandlers(r) ==
    \/ \E u \in Users, a \in Addrs : LinkFind(r, u, a)
    \/ LinkUpdate(r)

\* The challenge routes and the direct link route, one handler at a time.
NextLink ==
    \/ Handlers(1)
    \/ LinkHandlers(1)
    \/ \E u \in Users : Unlink(u)

SpecLink == Init /\ [][NextLink]_vars

\* ------------------------------------------------------- reward slice
\* The state once u1 has issued and verified a challenge for rA.
InitReward ==
    /\ wallet = [u \in Users |-> IF u = "u1" THEN "rA" ELSE NoAddr]
    /\ now = 0
    /\ challenges = <<[nonce |-> 1, message |-> generateChallengeMessage(1, "rA", 0),
                       xrplAddress |-> "rA", userId |-> "u1", isUsed |-> TRUE,
                       isVerified |-> TRUE, expiresAt |-> TTL, verifiedAt |-> 0]>>
    /\ req = [r \in Reqs |-> IdleReq]
    /\ last = Reply("verify", "u1", "rA", "kA", 1, Ok)
    /\ okCount = <<1>>
    /\ artifacts = <<>>
    /\ rewards = <<>>
    /\ ledger = <<>>

RewardHandlers(r) ==
    \/ \E caller \in Users \cup {NoUser}, p \in Posts \cup {NoPost} :
          TriggerRequest(r, caller, p)
    \/ RewardLookupUser(r)
    \/ \E outcome \in {"created", "connect failed", "create failed"} :
          RewardCreate(r, outcome)
    \/ \E outcome \in {"filled", "error"} : RewardAutofill(r, outcome)
    \/ \E outcome \in {"tesSUCCESS", "rejected", "error", "lost"} :
          RewardSubmit(r, outcome)
    \/ \E stored \in BOOLEAN : RewardConfirm(r, stored)
    \/ \E stored \in BOOLEAN : RewardFail(r, stored)

NextReward ==
    \/ \E r \in Reqs : RewardHandlers(r)
    \/ \E u \in Users : Unlink(u)

SpecReward == InitReward /\ [][NextReward]_vars

\* ------------------------------------------------------------ balances
\* parseFloat on the amounts the reward code writes.
parseFloat(amount) == IF amount = "10" THEN 10 ELSE 0

\* (variant: the query has no status filter)
findManyAnyStatus(u) ==
    SelectSeq(rewards, LAMBDA row : row.userId = u)

\* tokenReward.findMany({ where: { userId, status: 'CONFIRMED' } })
findManyConfirmed(u) ==
    SelectSeq(rewards, LAMBDA row : row.userId = u /\ row.status = "CONFIRMED")

\* rewards.reduce(...) and the totals.X || 0 of the reply.
RECURSIVE reduceTotals(_)
reduceTotals(rows) ==
    IF rows = <<>>
    THEN [EXPLORER |-> 0, REGEN |-> 0, GUARDIAN |-> 0]
    ELSE LET acc == reduceTotals(Tail(rows))
             reward == Head(rows)
         IN  [acc EXCEPT ![reward.tokenType] = @ + parseFloat(reward.amount)]

\* GET /wallet/balances: user.findUnique and the 404 for an unbound caller.
BalancesRequest(r, u) ==
    /\ Free(r)
    /\ IF wallet[u] = NoAddr
       THEN /\ last' = Reply("balances", u, NoAddr, NoKey, 0, NotFound)
            /\ req' = req
       ELSE /\ req' = [req EXCEPT ![r] = [IdleReq EXCEPT !.kind = "balances",
                            !.pc = "findMany", !.user = u, !.addr = wallet[u]]]
            /\ last' = last
    /\ UNCHANGED <<walletVars, rewardVars>>

\* GET /wallet/balances: tokenReward.findMany, the totals and the reply.
BalancesReply(r) ==
    /\ req[r].kind = "balances" /\ req[r].pc = "findMany"
    /\ last' = [Reply("balances", req[r].user, req[r].addr, NoKey, 0, Ok) EXCEPT
                    !.balances = reduceTotals(findManyConfirmed(req[r].user))]
    /\ req' = [req EXCEPT ![r] = IdleReq]
    /\ UNCHANGED <<walletVars, rewardVars>>

\* The state once u1 has verified rA and u2 has verified rB.
InitBalances ==
    /\ wallet = [u \in Users |-> IF u = "u1" THEN "rA" ELSE "rB"]
    /\ now = 0
    /\ challenges =
          <<[nonce |-> 1, message |-> generateChallengeMessage(1, "rA", 0),
             xrplAddress |-> "rA", userId |-> "u1", isUsed |-> TRUE,
             isVerified |-> TRUE, expiresAt |-> TTL, verifiedAt |-> 0],
            [nonce |-> 2, message |-> generateChallengeMessage(2, "rB", 0),
             xrplAddress |-> "rB", userId |-> "u2", isUsed |-> TRUE,
             isVerified |-> TRUE, expiresAt |-> TTL, verifiedAt |-> 0]>>
    /\ req = [r \in Reqs |-> IdleReq]
    /\ last = Reply("verify", "u2", "rB", "kB", 2, Ok)
    /\ okCount = <<1, 1>>
    /\ artifacts = <<>>
    /\ rewards = <<>>
    /\ ledger = <<>>

\* The trigger route and the balances route, concurrently.
NextBalances ==
    \/ \E r \in Reqs : RewardHandlers(r)
    \/ \E r \in Reqs, u \in Users : BalancesRequest(r, u)
    \/ \E r \in Reqs : BalancesReply(r)
    \/ \E u \in Users : Unlink(u)

SpecBalances == InitBalances /\ [][NextBalances]_vars

\* ------------------------------------------- the vault-backed service
\* The class of xrpl.service.ts that takes the issuer's secrets from the
\* vault.  A slot of kind "service" holds an instance and its client code;
\* a trigger handler's slot holds the instance the handler constructs.

\* new XRPLService(prisma): isInitialized and isConnected start false.
ServiceNew(r) ==
    /\ Free(r)
    /\ req' = [req EXCEPT ![r] = [IdleReq EXCEPT !.kind = "service", !.pc = "ready"]]
    /\ UNCHANGED <<walletVars, rewardVars, last>>

\* The instance is dropped.
ServiceDispose(r) ==
    /\ req[r].kind = "service" /\ req[r].pc = "ready"
    /\ req' = [req EXCEPT ![r] = IdleReq]
    /\ UNCHANGED <<walletVars, rewardVars, last>>

\* initialize(), up to its first await (getSecret); on an initialized
\* instance it returns at once.
InitializeBegin(r) ==
    /\ req[r].kind = "service" /\ req[r].pc = "ready"
    /\ IF req[r].isInitialized
       THEN /\ req' = req
            /\ last' = Reply("initialize", NoUser, NoAddr, NoKey, 0, Returned)
       ELSE /\ req' = [req EXCEPT ![r].pc = "initializing"]
            /\ last' = last
    /\ UNCHANGED <<walletVars, rewardVars>>

\* (variant: the flag is set before the secrets are awaited)
InitializeEndFlagFirst(r, outcome) ==
    /\ req[r].kind = "service" /\ req[r].pc = "initializing"
    /\ IF outcome = "secrets"
       THEN /\ \E explorerCurrency \in ExplorerCurrencies :
                 req' = [req EXCEPT ![r].pc = "ready", ![r].isInitialized = TRUE,
                                    ![r].tokenConfig = tokenConfig(explorerCurrency)]
            /\ last' = Reply("initialize", NoUser, NoAddr, NoKey, 0, Returned)
       ELSE /\ req' = [req EXCEPT ![r].pc = "ready", ![r].isInitialized = TRUE]
            /\ last' = Reply("initialize", NoUser, NoAddr, NoKey, 0, InitializeFailed)
    /\ UNCHANGED <<walletVars, rewardVars>>

\* initialize(), once the vault has answered both getSecret calls: the
\* secrets, then the currencies from the environment, tokenConfig and the
\* flag; or an error from either call, rethrown by the catch block.
InitializeEnd(r, outcome) ==
    /\ req[r].kind = "service" /\ req[r].pc = "initializing"
    /\ IF outcome = "secrets"
       THEN /\ \E explorerCurrency \in ExplorerCurrencies :
                 req' = [req EXCEPT ![r].pc = "ready", ![r].isInitialized = TRUE,
                                    ![r].tokenConfig = tokenConfig(explorerCurrency)]
            /\ last' = Reply("initialize", NoUser, NoAddr, NoKey, 0, Returned)
       ELSE /\ req' = [req EXCEPT ![r].pc = "ready"]
            /\ last' = Reply("initialize", NoUser, NoAddr, NoKey, 0, InitializeFailed)
    /\ UNCHANGED <<walletVars, rewardVars>>

\* createTrustline and getTokenBalance start like sendTokenReward.
TokenOps == {"createTrustline", "getTokenBalance"}

\* (variant: the operation does not call ensureInitialized)
ServiceCallUnguarded(r, op, outcome) ==
    /\ req[r].kind = "service" /\ req[r].pc \in {"ready", "initializing"}
    /\ IF outcome = "connect failed" /\ ~req[r].isConnected
       THEN /\ req' = req
            /\ last' = Reply(op, NoUser, NoAddr, NoKey, 0, ConnectionFailed)
       ELSE /\ req' = [req EXCEPT ![r].isConnected = TRUE]
            /\ last' = Reply(op, NoUser, NoAddr, NoKey, 0, Returned)
    /\ UNCHANGED <<walletVars, rewardVars>>

\* createTrustline / getTokenBalance on the instance of slot r, possibly
\* while its initialize() is still pending: ensureInitialized, connect, the
\* ledger request.  The trust lines and balances of user accounts are not
\* part of ledger, which holds the issuer's payments.
ServiceCall(r, op, outcome) ==
    /\ req[r].kind = "service" /\ req[r].pc \in {"ready", "initializing"}
    /\ IF ~req[r].isInitialized
       THEN /\ req' = req
            /\ last' = Reply(op, NoUser, NoAddr, NoKey, 0, NotInitialized)
       ELSE IF outcome = "connect failed" /\ ~req[r].isConnected
       THEN /\ req' = req
            /\ last' = Reply(op, NoUser, NoAddr, NoKey, 0, ConnectionFailed)
       ELSE /\ req' = [req EXCEPT ![r].isConnected = TRUE]
            /\ last' = Reply(op, NoUser, NoAddr, NoKey, 0, Returned)
    /\ UNCHANGED <<walletVars, rewardVars>>

\* (variant: sendTokenReward does not call ensureInitialized)
VaultSendTokenRewardUnguarded(r, outcome) ==
    /\ req[r].kind = "trigger" /\ req[r].pc = "rewardCreate"
    /\ IF outcome = "created"
       THEN /\ LET tokenInfo == getTokenConfig(req[r].tokenConfig, "EXPLORER")
               IN  rewards' = Append(rewards,
                       NewReward(tokenInfo, authorId(req[r].post), req[r].post,
                                 req[r].addr, "10", "EXPLORER"))
            /\ req' = [req EXCEPT ![r].pc = "autofill", ![r].reward = Len(rewards) + 1,
                                   ![r].isConnected = TRUE]
            /\ last' = last
       ELSE /\ rewards' = rewards
            /\ TriggerDone(r, NoTx)
    /\ UNCHANGED <<walletVars, artifacts, ledger>>

\* sendTokenReward of the vault-backed class on the instance the trigger
\* handler constructed: ensureInitialized throws before connect and create;
\* the throw is caught by the trigger handler's reward block.
VaultSendTokenReward(r, outcome) ==
    /\ req[r].kind = "trigger" /\ req[r].pc = "rewardCreate"
    /\ IF ~req[r].isInitialized
       THEN /\ rewards' = rewards
            /\ TriggerDone(r, NoTx)
       ELSE IF outcome = "created"
       THEN /\ LET tokenInfo == getTokenConfig(req[r].tokenConfig, "EXPLORER")
               IN  rewards' = Append(rewards,
                       NewReward(tokenInfo, authorId(req[r].post), req[r].post,
                                 req[r].addr, "10", "EXPLORER"))
            /\ req' = [req EXCEPT ![r].pc = "autofill", ![r].reward = Len(rewards) + 1,
                                   ![r].isConnected = TRUE]
            /\ last' = last
       ELSE /\ rewards' = rewards
            /\ TriggerDone(r, NoTx)
    /\ UNCHANGED <<walletVars, artifacts, ledger>>

\* The trigger route over the vault-backed class, and client code that uses
\* an instance of the class directly.
NextVault ==
    \/ \E r \in Reqs, caller \in Users \cup {NoUser}, p \in Posts \cup {NoPost} :
          TriggerRequest(r, caller, p)
    \/ \E r \in Reqs : RewardLookupUser(r)
    \/ \E r \in Reqs, outcome \in {"created", "connect failed", "create failed"} :
          VaultSendTokenReward(r, outcome)
    \/ \E r \in Reqs : ServiceNew(r)
    \/ \E r \in Reqs : InitializeBegin(r)
    \/ \E r \in Reqs, outcome \in {"secrets", "vault error"} : InitializeEnd(r, outcome)
    \/ \E r \in Reqs, op \in TokenOps, outcome \in {"connected", "connect failed"} :
          ServiceCall(r, op, outcome)
    \/ \E r \in Reqs : ServiceDispose(r)
    \/ \E u \in Users : Unlink(u)

SpecVault == InitReward /\ [][NextVault]_vars

\* Rewards while the beneficiary's binding changes: the wallet routes and
\* the trigger route, one handler at a time.
NextRouting ==
    \/ Handlers(1)
    \/ RewardHandlers(1)
    \/ \E u \in Users : Unlink(u)

SpecRouting == InitReward /\ [][NextRouting]_vars

\* The steps a running trigger handler takes in slot r once its request is
\* admitted, over a store that accepts the status updates.
RewardContinue(r) ==
    \/ RewardLookupUser(r)
    \/ \E outcome \in {"created", "connect failed", "create failed"} :
          RewardCreate(r, outcome)
    \/ \E outcome \in {"filled", "error"} : RewardAutofill(r, outcome)
    \/ \E outcome \in {"tesSUCCESS", "rejected", "error", "lost"} :
          RewardSubmit(r, outcome)
    \/ RewardConfirm(r, TRUE)
    \/ RewardFail(r, TRUE)

NextRewardLive ==
    \/ \E r \in Reqs, caller \in Users \cup {NoUser}, p \in Posts \cup {NoPost} :
          TriggerRequest(r, caller, p)
    \/ \E r \in Reqs : RewardContinue(r)
    \/ \E u \in Users : Unlink(u)

\* Every awaited call settles, and the event loop then runs the handler's
\* continuation.
SpecRewardLive ==
    InitReward /\ [][NextRewardLive]_vars /\ \A r \in Reqs : WF_vars(RewardContinue(r))

\* ----------------------------------------------------------- properties
\* The step is an early return of POST /wallet/verify with reply res.
RejectedAs(u, c, res) ==
    /\ last' = Reply("verify", u, NoAddr, NoKey, c, res)
    /\ req' = req
    /\ wallet' = wallet
    /\ challenges' = challenges

\* The step is an early return of POST /wallet/verify.
VerifyRefusal ==
    /\ req' = req
    /\ last' # last
    /\ last'.kind = "verify" /\ last'.addr = NoAddr

\* The step is a verify request passing all its checks, in slot r.
VerifyAdmitted(r) == req[r].pc = "idle" /\ req'[r].kind = "verify"

\* C1: of the verify calls on one challenge at most one replies success,
\* however the calls interleave.
C1_AtMostOneSuccess == \A c \in ChallengeIds : okCount[c] <= 1

\* C2: once a verify on a challenge has succeeded, a later verify with the
\* same nonce, by the owner, with the address and a correct signature, before
\* expiry, is rejected as AlreadyUsed and changes no challenge and no wallet.
C2_ReuseRejected ==
    [][\A c \in ChallengeIds :
          (okCount[c] >= 1 /\ now <= challenges[c].expiresAt)
              => \A r \in Reqs, pk \in Keys :
                    VerifyRequest(r, challenges[c].userId, challenges[c].nonce,
                                  challenges[c].xrplAddress,
                                  Sign(pk, ToHex(challenges[c].message)), pk)
                        => RejectedAs(challenges[c].userId, c, AlreadyUsed)]_vars

C2_Witness ==
    /\ last.kind = "verify" /\ last.result = AlreadyUsed
    /\ last.ch # 0
    /\ okCount[last.ch] >= 1
    /\ last.user = challenges[last.ch].userId
    /\ now <= challenges[last.ch].expiresAt

\* C3: no verify replies success when the address derived from the supplied
\* public key differs from the challenge's claimed address.
C3_KeyMatchesClaimedAddress ==
    (last.kind = "verify" /\ last.result = Ok)
        => deriveAddress(last.pk) = challenges[last.ch].xrplAddress

\* C4: no two distinct users have the same bound wallet address.
C4_UniqueBinding ==
    \A u, v \in Users : (u # v /\ wallet[u] # NoAddr) => wallet[u] # wallet[v]

\* a second user's binding of a held address has just been refused
C4_Witness ==
    /\ last.kind = "verify" /\ last.result = InternalError
    /\ \E v \in Users : v # last.user /\ wallet[v] = last.addr

\* C5: a verify whose binding finds the address held by another user replies
\* the typed Conflict failure and leaves every wallet as it is.
C5_ConflictIsTyped ==
    [][\A r \in Reqs :
          (~WalletUniqueOk(req[r].user, req[r].addr) /\ VerifyUpdateUser(r))
              => (last'.result = Conflict /\ wallet' = wallet)]_vars

\* C6: once no verify handler is running on it, a challenge is marked
\* consumed and verified exactly if a verify call on it bound the address
\* (and replied success).
C6_ConsumedIffBound ==
    \A c \in ChallengeIds :
        (\A r \in Reqs : ~(req[r].kind = "verify" /\ req[r].ch = c))
            => ((challenges[c].isUsed /\ challenges[c].isVerified) <=> okCount[c] >= 1)

\* C7: at most one reward request per (beneficiary, contribution, token kind)
\* is CONFIRMED.
C7_OneConfirmedPerTriple ==
    \A i, j \in RewardIds :
        ( /\ i # j
          /\ rewards[i].status = "CONFIRMED" /\ rewards[j].status = "CONFIRMED" )
        => <<rewards[i].userId, rewards[i].postId, rewards[i].tokenType>>
               # <<rewards[j].userId, rewards[j].postId, rewards[j].tokenType>>

\* C8: a verify by the challenge's owner is rejected as Expired, with nothing
\* changed, whenever the clock is past expiresAt, whatever address, signature
\* and key it carries; at or before expiresAt it is not rejected as Expired.
C8_ExpiredIffPastExpiry ==
    [][ /\ (VerifyRefusal /\ last'.ch # 0 /\ challenges[last'.ch].userId = last'.user)
             => /\ (last'.result = Expired) <=> (now > challenges[last'.ch].expiresAt)
                /\ wallet' = wallet /\ challenges' = challenges
        /\ \A r \in Reqs :
             VerifyAdmitted(r) => now <= challenges[req'[r].ch].expiresAt ]_vars

\* an expired challenge has just been refused, and another one was accepted
\* at the very instant of its expiry
C8_Witness ==
    /\ last.kind = "verify" /\ last.result = Expired
    /\ last.ch # 0 /\ now > challenges[last.ch].expiresAt
    /\ \E c \in ChallengeIds :
          challenges[c].isVerified /\ challenges[c].verifiedAt = challenges[c].expiresAt

\* C9: every bound address is backed by a consumed, verified challenge of
\* that user for that address.
C9_BoundOnlyByVerify ==
    \A u \in Users :
        wallet[u] # NoAddr
            => \E c \in ChallengeIds :
                  /\ challenges[c].userId = u
                  /\ challenges[c].xrplAddress = wallet[u]
                  /\ challenges[c].isUsed /\ challenges[c].isVerified

\* C10: whatever the reward block does, the trigger handler ends with the
\* 201 reply for its artifact, and no artifact is ever removed or altered.
C10_TriggerIsolated ==
    [][ /\ \A r \in Reqs :
             (req[r].kind = "trigger" /\ req'[r].kind # "trigger")
                 => /\ last'.kind = "trigger"
                    /\ last'.result = Created
                    /\ last'.artifact = req[r].artifact
        /\ Len(artifacts') >= Len(artifacts)
        /\ \A i \in 1..Len(artifacts) : artifacts'[i] = artifacts[i] ]_vars

\* the reward failed and was recorded as FAILED; the trigger replied 201
C10_Witness ==
    /\ last.kind = "trigger" /\ last.result = Created /\ last.tx = NoTx
    /\ last.artifact \in 1..Len(artifacts)
    /\ \E i \in RewardIds :
          rewards[i].status = "FAILED" /\ rewards[i].postId = artifacts[last.artifact].threadRootId
C13_TerminalStatus ==
    [][\A i \in RewardIds :
          rewards[i].status \in {"CONFIRMED", "FAILED"}
              => /\ rewards'[i].status = rewards[i].status
                 /\ \A k \in (Len(ledger) + 1)..Len(ledger') : ledger'[k].tx.origin # i
                 /\ \A r \in Reqs :
                       ~(req'[r].reward = i /\ req'[r].pc \in {"autofill", "submit"})]_vars

\* a request failed, and a later one was then paid and confirmed
C13_Witness ==
    \E i, j \in RewardIds :
        /\ i < j
        /\ rewards[i].status = "FAILED"
        /\ rewards[j].status = "CONFIRMED" /\ rewards[j].xrplTxHash = Len(ledger)

\* C14: a reward request is created PENDING and its status only moves
\* PENDING -> PROCESSING -> CONFIRMED or FAILED.
C14_StartsPending ==
    [][ /\ \A i \in (Len(rewards) + 1)..Len(rewards') : rewards'[i].status = "PENDING"
        /\ \A i \in RewardIds :
              rewards'[i].status # rewards[i].status
                  => <<rewards[i].status, rewards'[i].status>> \in
                        { <<"PENDING", "PROCESSING">>, <<"PROCESSING", "CONFIRMED">>,
                          <<"PROCESSING", "FAILED">> } ]_vars

\* C15: at most one autofill-sign-submit sequence is in progress, and no two
\* payments in flight carry the same account Sequence.
C15_SubmissionsSerialized ==
    /\ Cardinality({r \in Reqs : req[r].pc \in {"autofill", "submit"}}) <= 1
    /\ \A r, q \in Reqs :
          (r # q /\ req[r].pc = "submit" /\ req[q].pc = "submit")
              => req[r].seq # req[q].seq
\* The reply last sent rejected a verify of the owner of challenge c on the
\* merits: expired, wrong address or invalid signature.
RejectedOnMerits(c) ==
    /\ last.kind = "verify" /\ last.ch = c
    /\ last.result \in {Expired, AddressMismatch, InvalidSignature}

\* C16: once a verify of its owner on a challenge has been rejected on the
\* merits, the next reply is no success of a verify on that challenge; once a
\* verify has succeeded, the owner's later verifies on the challenge are
\* rejected as already used only.
C16_DecisionIsFinal ==
    [][\A c \in ChallengeIds :
          /\ RejectedOnMerits(c) => okCount'[c] = okCount[c]
          /\ ( /\ okCount[c] >= 1
               /\ VerifyRefusal /\ last'.ch = c /\ last'.user = challenges[c].userId )
                => last'.result = AlreadyUsed]_vars

\* C17: every verified challenge is consumed.
C17_VerifiedImpliesConsumed ==
    \A c \in ChallengeIds : challenges[c].isVerified => challenges[c].isUsed

\* a challenge has been marked and its handler has not yet bound the address
C17_Witness ==
    \E r \in Reqs :
        /\ req[r].kind = "verify" /\ req[r].pc = "updateUser"
        /\ challenges[req[r].ch].isVerified

\* C18: no challenge row is deleted; a consumed row never changes again; an
\* unconsumed row changes only by being consumed, its identity kept.
C18_MutatedOnce ==
    [][ /\ Len(challenges') >= Len(challenges)
        /\ \A c \in ChallengeIds :
              \/ challenges'[c] = challenges[c]
              \/ /\ ~challenges[c].isUsed
                 /\ challenges'[c].isUsed
                 /\ challenges'[c] = [challenges[c] EXCEPT
                        !.isUsed = TRUE,
                        !.isVerified = challenges'[c].isVerified,
                        !.verifiedAt = challenges'[c].verifiedAt] ]_vars

\* C19: a verify on another user's challenge is rejected as Forbidden,
\* whatever address, signature and key it carries, and changes no challenge
\* and no wallet; no such request passes the checks.
C19_ForeignVerifyForbidden ==
    [][ /\ ( /\ VerifyRefusal /\ last'.ch # 0
             /\ challenges[last'.ch].userId # last'.user )
              => /\ last'.result = Forbidden
                 /\ wallet' = wallet /\ challenges' = challenges
        /\ \A r \in Reqs :
              VerifyAdmitted(r) => challenges[req'[r].ch].userId = req'[r].user ]_vars

\* another user's verify on a consumed challenge was refused as Forbidden
C19_Witness ==
    /\ last.kind = "verify" /\ last.result = Forbidden
    /\ last.ch # 0
    /\ challenges[last.ch].isUsed

\* C20: an issue request is refused with Conflict, persisting nothing,
\* exactly if the address is bound to another user when it is looked up;
\* otherwise it goes on to persist a challenge for its user and address and
\* replies success (its nonce being new).
C20_IssueConflict ==
    [][ /\ (last' # last /\ last'.kind = "challenge" /\ last'.result = Conflict)
              => /\ FindUserByWallet(last'.addr) \notin {NoUser, last'.user}
                 /\ challenges' = challenges /\ req' = req
        /\ \A r \in Reqs :
              (req[r].pc = "idle" /\ req'[r].kind = "challenge")
                  => FindUserByWallet(req'[r].addr) \in {NoUser, req'[r].user}
        /\ \A r \in Reqs, n \in 1..(Len(challenges) + 1) :
              (req[r].kind = "challenge" /\ NonceUniqueOk(n) /\ IssueCreate(r, n))
                  => /\ last'.kind = "challenge" /\ last'.result = Ok
                     /\ challenges' = Append(challenges,
                            NewChallenge(n, req[r].user, req[r].addr)) ]_vars

\* an issue for an address held by another user was refused, and an issue
\* by the holder itself had been accepted
C20_Witness ==
    /\ last.kind = "challenge" /\ last.result = Conflict
    /\ \E v \in Users : v # last.user /\ wallet[v] = last.addr
    /\ Len(challenges) >= 1
\* C21: a reward for a beneficiary without a bound address fails at the
\* wallet check: the handler's reward block ends there, no reward row is
\* created, no payment reaches the ledger, and no stored row is ever
\* addressed to "no address".
C21_NoWalletNothingPersisted ==
    [][ /\ \A r \in Reqs :
              ( /\ req[r].pc = "rewardUser"
                /\ wallet[authorId(req[r].post)] = NoAddr
                /\ req'[r] # req[r] ) =>
              ( /\ req'[r] = IdleReq
                /\ rewards' = rewards
                /\ ledger' = ledger
                /\ last' = TriggerReply(req[r].user, req[r].artifact, NoTx) )
        /\ \A i \in 1..Len(rewards') : rewards'[i].xrplDestination # NoAddr ]_vars

C21_Witness ==
    /\ last.kind = "trigger" /\ last.result = Created /\ last.tx = NoTx
    /\ last.artifact \in 1..Len(artifacts)
    /\ artifacts[last.artifact].threadRootId = "p2"
    /\ wallet[authorId("p2")] = NoAddr
    /\ \A i \in RewardIds : rewards[i].postId # "p2"

\* The keypair of address a, and what its holder signs for challenge c.
KeyOf(a) == CHOOSE k \in Keys : deriveAddress(k) = a
OwnerSignature(c) == Sign(KeyOf(challenges[c].xrplAddress), ToHex(challenges[c].message))

C23_NonceUnique ==
    [][ /\ \A c, d \in 1..Len(challenges') :
              challenges'[c].nonce = challenges'[d].nonce => c = d
        /\ \A r \in Reqs, n \in Nonces :
              ( /\ \E c \in ChallengeIds : challenges[c].nonce = n
                /\ IssueCreate(r, n) ) =>
              ( /\ challenges' = challenges
                /\ last'.kind = "challenge" /\ last'.result = InternalError
                /\ last'.ch = 0 ) ]_vars

C23_Witness ==
    /\ last.kind = "challenge" /\ last.result = InternalError
    /\ Len(challenges) = 1
    /\ \A r \in Reqs : req[r].pc = "idle"

\* C24: the destination, issuer and currency of a stored reward row never
\* change: not by a status update, not when the beneficiary unlinks or binds
\* another address, not when a later service instance is constructed with
\* another token configuration.
C24_RoutingFrozen ==
    [][ \A i \in RewardIds :
          /\ i <= Len(rewards')
          /\ rewards'[i].xrplDestination = rewards[i].xrplDestination
          /\ rewards'[i].xrplIssuer = rewards[i].xrplIssuer
          /\ rewards'[i].xrplCurrency = rewards[i].xrplCurrency ]_vars

C24_Witness ==
    \E i, j \in RewardIds :
        /\ rewards[i].userId = rewards[j].userId
        /\ rewards[i].status = "CONFIRMED"
        /\ rewards[i].xrplDestination # rewards[j].xrplDestination
        /\ rewards[i].xrplCurrency # rewards[j].xrplCurrency
        /\ wallet[rewards[i].userId] = NoAddr

\* C25: every CONFIRMED reward row carries a transaction hash and a
\* confirmedAt timestamp, and a row in any other status has no confirmedAt.
C25_ConfirmedHasTxRef ==
    \A i \in RewardIds :
        IF rewards[i].status = "CONFIRMED"
        THEN /\ rewards[i].xrplTxHash # NoTx
             /\ rewards[i].xrplTxHash \in 1..Len(ledger)
             /\ rewards[i].confirmedAt # Null
        ELSE rewards[i].confirmedAt = Null

C25_Witness ==
    \E i, j \in RewardIds :
        /\ rewards[i].status = "CONFIRMED" /\ rewards[i].xrplTxHash # NoTx
        /\ rewards[i].confirmedAt # Null
        /\ rewards[j].status = "FAILED" /\ rewards[j].processedAt # Null
        /\ rewards[j].confirmedAt = Null

\* The failures POST /wallet/verify names in its replies, and the one the
\* specification adds for an address held by another user.
VerifyFailures ==
    {NotFound, Forbidden, Expired, AlreadyUsed, AddressMismatch, InvalidSignature,
     Conflict}

\* C26: a verify call that does not succeed is answered with one of the
\* seven typed failures, which differ pairwise in the reply, and never with
\* the generic internal failure.
C26_FailuresTyped ==
    /\ Cardinality(VerifyFailures) = 7
    /\ InternalError \notin VerifyFailures
    /\ (last.kind = "verify" /\ last.result # Ok) => last.result \in VerifyFailures

\* C27: a trigger request of an unauthenticated caller or of a caller whose
\* role is neither STEWARD nor ADMIN is refused with nothing done: no
\* artifact, no reward row, no payment, no handler left running; every
\* artifact and every running trigger handler is a steward's or an admin's.
C27_StewardOnly ==
    [][ /\ \A r \in Reqs, caller \in Users \cup {NoUser}, p \in Posts \cup {NoPost} :
              ( /\ caller = NoUser \/ Role(caller) \notin {"STEWARD", "ADMIN"}
                /\ TriggerRequest(r, caller, p) ) =>
              ( /\ artifacts' = artifacts /\ rewards' = rewards /\ ledger' = ledger
                /\ req' = req
                /\ last'.kind = "trigger" /\ last'.user = caller
                /\ last'.result = IF caller = NoUser THEN Unauthorized ELSE Forbidden )
        /\ \A i \in 1..Len(artifacts') :
              Role(artifacts'[i].createdById) \in {"STEWARD", "ADMIN"}
        /\ \A r \in Reqs :
              req'[r].kind = "trigger" =>
                  (req'[r].user # NoUser /\ Role(req'[r].user) \in {"STEWARD", "ADMIN"})
      ]_vars

C27_Witness ==
    /\ last.kind = "trigger" /\ last.result = Forbidden
    /\ Role(last.user) = "USER"
    /\ wallet[authorId("p1")] # NoAddr
    /\ artifacts = <<>> /\ rewards = <<>> /\ ledger = <<>>
    /\ \A r \in Reqs : req[r].pc = "idle"

\* C28: the challenge message is a function of the nonce and the claimed
\* address alone: building it again for a stored challenge's nonce and
\* address, at whatever time, gives the stored text.
C28_MessageDeterministic ==
    \A c \in ChallengeIds :
        generateChallengeMessage(challenges[c].nonce, challenges[c].xrplAddress, now)
            = challenges[c].message

\* C29: on the vault-backed service a token operation called while the
\* instance is not initialized (never initialized, initialize() pending, or
\* initialize() failed) throws the not-initialized error and does nothing
\* else: the instance stays unconnected, no reward row is created and no
\* payment is submitted.
C29_NotInitializedNoEffect ==
    [][ /\ \A r \in Reqs, op \in TokenOps, outcome \in {"connected", "connect failed"} :
              (~req[r].isInitialized /\ ServiceCall(r, op, outcome)) =>
              ( /\ last'.kind = op /\ last'.result = NotInitialized
                /\ req' = req /\ rewards' = rewards /\ ledger' = ledger )
        /\ \A r \in Reqs :
              ( /\ req[r].kind = "trigger" /\ req[r].pc = "rewardCreate"
                /\ ~req[r].isInitialized /\ req'[r] # req[r] ) =>
              ( /\ req'[r] = IdleReq
                /\ rewards' = rewards /\ ledger' = ledger
                /\ last' = TriggerReply(req[r].user, req[r].artifact, NoTx) )
        /\ \A r \in Reqs : req'[r].isConnected => req'[r].isInitialized ]_vars

C29_Witness ==
    /\ last.kind \in TokenOps /\ last.result = NotInitialized
    /\ \E r \in Reqs : req[r].kind = "service" /\ req[r].pc = "initializing"
                          /\ ~req[r].isConnected
    /\ \A r \in Reqs : req[r].kind # "trigger"
    /\ Len(artifacts) >= 1 /\ wallet[authorId(artifacts[1].threadRootId)] # NoAddr
    /\ rewards = <<>> /\ ledger = <<>>

\* C30: verify reports the first failing check in the order NotFound,
\* Forbidden, Expired, AlreadyUsed, AddressMismatch, InvalidSignature,
\* whatever later checks would say, and goes on to its updates exactly when
\* all six pass.
C30_CheckOrder ==
    [][ \A r \in Reqs, u \in Users, n \in Nonces, a \in Addrs, s \in Sigs, pk \in Keys :
          VerifyRequest(r, u, n, a, s, pk) =>
            LET c == FindChallenge(n)
                found == c # 0
                owned == found /\ challenges[c].userId = u
                live == owned /\ now <= challenges[c].expiresAt
                fresh == live /\ ~challenges[c].isUsed
                matched == fresh /\ challenges[c].xrplAddress = a
                signed == matched /\ s = Sign(pk, ToHex(challenges[c].message))
                Refused(res) == /\ last' = Reply("verify", u, NoAddr, NoKey, c, res)
                                /\ req' = req
            IN  /\ ~found => Refused(NotFound)
                /\ (found /\ ~owned) => Refused(Forbidden)
                /\ (owned /\ ~live) => Refused(Expired)
                /\ (live /\ ~fresh) => Refused(AlreadyUsed)
                /\ (fresh /\ ~matched) => Refused(AddressMismatch)
                /\ (matched /\ ~signed) => Refused(InvalidSignature)
                /\ signed <=> (req'[r].kind = "verify" /\ req'[r].pc = "updateChallenge")
      ]_vars

C30_Witness ==
    /\ last.kind = "verify" /\ last.result = Expired /\ last.ch \in ChallengeIds
    /\ challenges[last.ch].isUsed
    /\ now > challenges[last.ch].expiresAt
    /\ okCount[last.ch] = 1

\* C31: a successful issue appends exactly one challenge: unused, unverified,
\* without verifiedAt, owned by the caller, for the requested address,
\* expiring TTL after the issuance time; the challenges stored before and
\* every user's bound address stay as they were.
C31_IssuePersistsOne ==
    [][ \A r \in Reqs, n \in Nonces :
          (NonceUniqueOk(n) /\ IssueCreate(r, n)) =>
            LET k == Len(challenges) + 1
            IN  /\ Len(challenges') = k
                /\ \A c \in ChallengeIds : challenges'[c] = challenges[c]
                /\ challenges'[k].nonce = n
                /\ challenges'[k].userId = req[r].user
                /\ challenges'[k].xrplAddress = req[r].addr
                /\ ~challenges'[k].isUsed /\ ~challenges'[k].isVerified
                /\ challenges'[k].verifiedAt = Null
                /\ challenges'[k].expiresAt = now + TTL
                /\ wallet' = wallet
                /\ last' = Reply("challenge", req[r].user, req[r].addr, NoKey, k, Ok) ]_vars

C31_Witness ==
    /\ last.kind = "challenge" /\ last.result = Ok /\ last.ch = 2
    /\ Len(challenges) = 2
    /\ challenges[1].isUsed /\ challenges[1].expiresAt = TTL
    /\ ~challenges[2].isUsed /\ challenges[2].verifiedAt = Null
    /\ challenges[2].expiresAt = TTL + TTL
    /\ challenges[2].userId = last.user /\ challenges[2].xrplAddress = last.addr

\* C32: a verify call that is refused by one of the six checks replies with
\* that failure and writes nothing: every challenge and every user's bound
\* address is as before, so a rejected signature leaves the challenge usable.
C32_RefusalWritesNothing ==
    [][ \A r \in Reqs, u \in Users, n \in Nonces, a \in Addrs, s \in Sigs, pk \in Keys :
          (VerifyRequest(r, u, n, a, s, pk) /\ req'[r].kind # "verify") =>
            ( /\ last'.kind = "verify"
              /\ last'.result \in {NotFound, Forbidden, Expired, AlreadyUsed,
                                    AddressMismatch, InvalidSignature}
              /\ challenges' = challenges
              /\ wallet' = wallet
              /\ req' = req ) ]_vars

C32_Witness ==
    /\ last.kind = "verify" /\ last.result = InvalidSignature
    /\ last.ch \in ChallengeIds
    /\ ~challenges[last.ch].isUsed /\ ~challenges[last.ch].isVerified
    /\ challenges[last.ch].verifiedAt = Null
    /\ now <= challenges[last.ch].expiresAt
    /\ \A u \in Users : wallet[u] = NoAddr

\* C33: a reward row in status FAILED has no payment on the ledger that was
\* validated with tesSUCCESS.
C33_FailedMeansNotPaid ==
    \A i \in RewardIds :
        rewards[i].status = "FAILED" =>
            ~\E k \in 1..Len(ledger) :
                ledger[k].tx.origin = i /\ ledger[k].result = "tesSUCCESS"

\* C34: a CONFIRMED reward row stores the hash of a payment on the ledger
\* that was made for this row and validated with tesSUCCESS.
C34_ConfirmedMeansPaid ==
    \A i \in RewardIds :
        rewards[i].status = "CONFIRMED" =>
            /\ rewards[i].xrplTxHash \in 1..Len(ledger)
            /\ ledger[rewards[i].xrplTxHash].tx.origin = i
            /\ ledger[rewards[i].xrplTxHash].result = "tesSUCCESS"
            /\ ledger[rewards[i].xrplTxHash].tx.Destination = rewards[i].xrplDestination

C34_Witness ==
    \E i, j \in RewardIds :
        /\ rewards[i].status = "CONFIRMED" /\ rewards[i].xrplTxHash = 2
        /\ ledger[2].tx.origin = i /\ ledger[2].result = "tesSUCCESS"
        /\ rewards[j].status = "FAILED"
        /\ ledger[1].tx.origin = j /\ ledger[1].result = "tecPATH_DRY"

\* C35: a reward row, when it is persisted, is addressed to the address its
\* beneficiary is bound to at that moment.
C35_DestinationIsCurrentBinding ==
    [][ \A i \in (Len(rewards) + 1)..Len(rewards') :
          rewards'[i].xrplDestination = wallet[rewards'[i].userId] ]_vars

\* C36: unlink by user u leaves u bound to no address and changes nothing
\* else: the other users' addresses, the challenges, the reward rows, the
\* ledger and the running handlers are as before.
C36_UnlinkFrame ==
    [][ \A u \in Users :
          Unlink(u) =>
            ( /\ wallet'[u] = NoAddr
              /\ \A v \in Users \ {u} : wallet'[v] = wallet[v]
              /\ challenges' = challenges
              /\ rewards' = rewards
              /\ ledger' = ledger /\ artifacts' = artifacts
              /\ req' = req ) ]_vars

C36_Witness ==
    /\ last.kind = "unlink" /\ last.result = Ok
    /\ wallet[last.user] = NoAddr
    /\ \E v \in Users : wallet[v] # NoAddr
    /\ \E c \in ChallengeIds :
          challenges[c].userId = last.user /\ challenges[c].isVerified
    /\ \E i \in RewardIds :
          rewards[i].userId = last.user /\ rewards[i].xrplDestination # NoAddr

\* C37: the balances reported to a user are the sums over that user's
\* CONFIRMED reward rows, by token type, and nothing else; a caller with no
\* bound address is answered Not Found.
C37_BalancesCountConfirmed ==
    [][ /\ \A r \in Reqs :
              BalancesReply(r) =>
                LET u == req[r].user
                    Mine(tokenType) ==
                        {i \in RewardIds : /\ rewards[i].userId = u
                                           /\ rewards[i].status = "CONFIRMED"
                                           /\ rewards[i].tokenType = tokenType}
                IN  /\ last'.kind = "balances" /\ last'.user = u /\ last'.result = Ok
                    /\ last'.balances.EXPLORER = 10 * Cardinality(Mine("EXPLORER"))
                    /\ last'.balances.REGEN = 10 * Cardinality(Mine("REGEN"))
                    /\ last'.balances.GUARDIAN = 10 * Cardinality(Mine("GUARDIAN"))
        /\ \A r \in Reqs, u \in Users :
              (wallet[u] = NoAddr /\ BalancesRequest(r, u)) =>
                ( /\ last' = Reply("balances", u, NoAddr, NoKey, 0, NotFound)
                  /\ req' = req ) ]_vars

C37_Witness ==
    /\ last.kind = "balances" /\ last.result = Ok
    /\ last.balances.EXPLORER = 10
    /\ \E i, j \in RewardIds :
          /\ rewards[i].userId = last.user /\ rewards[i].status = "CONFIRMED"
          /\ rewards[j].userId # last.user /\ rewards[j].status = "CONFIRMED"

\* C38: initialize() on an initialized instance returns and changes nothing;
\* an initialize() that cannot load a secret throws and leaves the instance
\* uninitialized with the token configuration it had, so the instance is
\* initialized exactly when its configuration is loaded, and token
\* operations on it go on failing as not initialized.
C38_InitializeAllOrNothing ==
    [][ \A r \in Reqs :
          /\ (req[r].isInitialized /\ InitializeBegin(r)) =>
                ( /\ req' = req
                  /\ last' = Reply("initialize", NoUser, NoAddr, NoKey, 0, Returned)
                  /\ rewards' = rewards /\ ledger' = ledger )
          /\ InitializeEnd(r, "vault error") =>
                ( /\ last'.kind = "initialize" /\ last'.result = InitializeFailed
                  /\ ~req'[r].isInitialized
                  /\ req'[r].tokenConfig = req[r].tokenConfig
                  /\ req'[r].isConnected = req[r].isConnected )
          /\ \A op \in TokenOps :
                (~req[r].isInitialized /\ ServiceCall(r, op, "connected")) =>
                    last'.result = NotInitialized
          /\ req'[r].isInitialized <=> req'[r].tokenConfig # EmptyConfig ]_vars

C38_Witness ==
    /\ last.kind = "initialize" /\ last.result = Returned
    /\ req[1].kind = "service" /\ req[1].isInitialized /\ req[1].isConnected
    /\ req[1].tokenConfig # EmptyConfig
    /\ req[2].kind = "service" /\ ~req[2].isInitialized
    /\ req[2].tokenConfig = EmptyConfig

====
